---- MODULE Spec2Model ----
(***************************************************************************)
(* Manifest review workflow of the Store repository:                       *)
(*   .github/scripts/bot_commands.py      (command dispatcher)             *)
(*   .github/scripts/validate_manifest.py (validator, ledger, labels)      *)
(*                                                                         *)
(* One invocation of bot_commands.py is a process that walks through its   *)
(* platform calls one step at a time; validate_manifest.py runs inside it  *)
(* as a synchronous subprocess.  The shared state is the change request:   *)
(* its changed files, its labels and its comments.                         *)
(*                                                                         *)
(* Only comments whose body contains MARKER_START are ever matched by the  *)
(* code (validate_manifest.py:58,233 and bot_commands.py:38), so the       *)
(* variable `comments` keeps those; every other comment an invocation      *)
(* creates is kept in that invocation's `out` log.  Platform calls are     *)
(* taken to succeed; the `except: pass` handlers around them are not       *)
(* exercised.                                                              *)
(***************************************************************************)
EXTENDS Integers, Sequences, FiniteSets, TLC

VARIABLES pr_files, labels, comments, inv

vars == <<pr_files, labels, comments, inv>>

(***************************************************************************)
(* Constants of the two scripts                                            *)
(***************************************************************************)
MODERATOR == "Artyomka628"
MODERATOR2 == "QuietOS-dev"

ICON_MAX_SIZE == 4096
ICON_WIDTH == 32
ICON_HEIGHT == 32

REQUIRED_FIELDS ==
  << "package", "name", "author", "version", "category", "description",
     "url", "sha256", "api_level", "permissions", "min_os_version" >>

WorkflowLabels == {"Invalid manifest", "Under review", "Approved", "Rejected"}

Range(s) == {s[i] : i \in DOMAIN s}

(***************************************************************************)
(* JSON values.  A string is a TLA+ string, except a string of hex digits, *)
(* which is the sequence of its digits so that its length can be read.     *)
(***************************************************************************)
JNull == [type |-> "null"]
JStr(s) == [type |-> "string", s |-> s]
JHex(h) == [type |-> "hex", h |-> h]

\* Python truthiness of a JSON value: None and "" are falsy.
Truthy(v) ==
  CASE v.type = "null" -> FALSE
    [] v.type = "string" -> v.s # ""
    [] v.type = "hex" -> v.h # <<>>

\* Python == on two JSON values.
PyEq(a, b) ==
  /\ a.type = b.type
  /\ a.type = "string" => a.s = b.s
  /\ a.type = "hex" => a.h = b.h

HexDigits == 0 .. 15

\* hashlib.sha256(data).hexdigest(): 64 hex digits, distinct for the byte
\* strings of the model (byte strings are numbered below 256).
Sha256(data) ==
  [i \in 1 .. 64 |->
     IF i = 1 THEN data % 16
     ELSE IF i = 2 THEN (data \div 16) % 16
     ELSE (data * i + i) % 16]

sha256_bytes(data) == JHex(Sha256(data))

(***************************************************************************)
(* Paths are <<directory, stem, extension>>.                               *)
(***************************************************************************)
ManifestA == <<"manifests", "a", "json">>
ManifestB == <<"manifests", "b", "json">>
Readme == <<"docs", "README", "md">>

\* pr.get_files() lists the changed files in path order.
PathOrder == <<Readme, ManifestA, ManifestB>>

IsManifestFile(f) == f[1] = "manifests" /\ f[3] = "json"

(***************************************************************************)
(* File contents.  A byte string is a number; json.loads of it is given by *)
(* the table below.  The artifact served at the manifest's url is byte     *)
(* string 200 or 201.                                                      *)
(***************************************************************************)
ArtifactBytes == {200, 201}

FullManifest ==
  [k \in Range(REQUIRED_FIELDS) |->
     CASE k = "package" -> JStr("calc")
       [] k = "url" -> JStr("https://example.org/calc.bin")
       [] k = "sha256" -> sha256_bytes(200)
       [] OTHER -> JStr("x")]

Without(obj, keys) == [k \in (DOMAIN obj) \ keys |-> obj[k]]

JObject(obj) == [json |-> "object", obj |-> obj]

Corpus ==
  << JObject(FullManifest),                                   \* 1 valid
     JObject(FullManifest),                                   \* 2 valid, other bytes
     JObject([Without(FullManifest, {"author"})
                EXCEPT !["url"] = JStr("")]),                 \* 3 no author, empty url
     [json |-> "invalid"],                                    \* 4 not JSON
     [json |-> "number"],                                     \* 5 JSON number
     [json |-> "array"],                                      \* 6 JSON array
     JObject([FullManifest EXCEPT !["sha256"] = JNull]),      \* 7 sha256 null
     JObject([FullManifest EXCEPT !["sha256"] = JStr("")]),   \* 8 sha256 ""
     JObject(Without(FullManifest, {"package", "sha256"})),   \* 9 no package, no sha256
     JObject([FullManifest EXCEPT !["sha256"] = sha256_bytes(201)]) \* 10 other digest
  >>

json_loads(file_bytes) == Corpus[file_bytes]

AllContents == 1 .. Len(Corpus)
WorkflowContents == {1, 2, 3}

(***************************************************************************)
(* Inputs from outside the change request: what reading the manifest,      *)
(* resolving the icon and downloading the url yield for one file.          *)
(***************************************************************************)
Icon(in_pr, download_ok, in_main, size, decodes, format, width, height) ==
  [in_pr |-> in_pr, download_ok |-> download_ok, in_main |-> in_main,
   size |-> size, decodes |-> decodes, format |-> format,
   width |-> width, height |-> height]

IconGood == Icon(FALSE, TRUE, TRUE, 1200, TRUE, "PNG", 32, 32)
IconTooLarge == Icon(TRUE, TRUE, FALSE, 4097, TRUE, "PNG", 32, 32)
IconMissing == Icon(FALSE, TRUE, FALSE, 0, FALSE, "", 0, 0)

Response(status_code, content) ==
  [kind |-> "response", status_code |-> status_code, content |-> content]
RequestException == [kind |-> "exception"]

Env(read_ok, icon, url) == [read_ok |-> read_ok, icon |-> icon, url |-> url]

WorkflowEnvs ==
  {Env(TRUE, IconGood, u) : u \in {Response(200, 200), Response(404, 0)}}

AllEnvs ==
  {Env(r, i, u) :
     r \in BOOLEAN, i \in {IconGood, IconTooLarge, IconMissing},
     u \in {Response(200, a) : a \in ArtifactBytes}
             \cup {Response(404, 0), RequestException}}

(***************************************************************************)
(* validate_manifest.py: icon check                                        *)
(***************************************************************************)
IconResult(ok, reason) == [ok |-> ok, reason |-> reason]

\* the check with the size test of line 98 written `>=`
validate_icon_size_below(pkg, icon) ==
  IF icon.in_pr /\ ~icon.download_ok
    THEN IconResult(FALSE, "Failed to download icon from PR")
  ELSE IF ~icon.in_pr /\ ~icon.in_main
    THEN IconResult(FALSE, "Icon not found in PR or main branch")
  ELSE IF icon.size >= ICON_MAX_SIZE
    THEN IconResult(FALSE, "Icon size exceeds ICON_MAX_SIZE bytes")
  ELSE IF ~icon.decodes
    THEN IconResult(FALSE, "Icon image invalid")
  ELSE IF icon.format # "PNG"
    THEN IconResult(FALSE, "Icon is not PNG")
  ELSE IF icon.width # ICON_WIDTH \/ icon.height # ICON_HEIGHT
    THEN IconResult(FALSE, "Icon dimensions must be ICON_WIDTHxICON_HEIGHT")
  ELSE IconResult(TRUE, "")

\* lines 67-111
validate_icon_for_package(pkg, icon) ==
  IF icon.in_pr /\ ~icon.download_ok
    THEN IconResult(FALSE, "Failed to download icon from PR")
  ELSE IF ~icon.in_pr /\ ~icon.in_main
    THEN IconResult(FALSE, "Icon not found in PR or main branch")
  ELSE IF icon.size > ICON_MAX_SIZE
    THEN IconResult(FALSE, "Icon size exceeds ICON_MAX_SIZE bytes")
  ELSE IF ~icon.decodes
    THEN IconResult(FALSE, "Icon image invalid")
  ELSE IF icon.format # "PNG"
    THEN IconResult(FALSE, "Icon is not PNG")
  ELSE IF icon.width # ICON_WIDTH \/ icon.height # ICON_HEIGHT
    THEN IconResult(FALSE, "Icon dimensions must be ICON_WIDTHxICON_HEIGHT")
  ELSE IconResult(TRUE, "")

(***************************************************************************)
(* validate_manifest.py: the per-file loop of main                         *)
(***************************************************************************)
\* The locals of one run of main: errors, current_hashes (a dict, kept as
\* its items in insertion order), the module flag validation_success, and
\* whether an exception left main.  actual records, per file, the digest of
\* the artifact downloaded with status 200; icons records each call of
\* validate_icon_for_package, the icon it met and what it returned.
Locals0 ==
  [errors |-> <<>>, current_hashes |-> <<>>, validation_success |-> TRUE,
   crashed |-> FALSE, actual |-> <<>>, icons |-> <<>>]

Fail(st, error) ==
  [st EXCEPT !.errors = Append(@, error), !.validation_success = FALSE]

RECURSIVE FailAll(_, _)
FailAll(st, errs) ==
  IF errs = <<>> THEN st ELSE FailAll(Fail(st, Head(errs)), Tail(errs))

\* lines 174-177
MissingFieldErrors(fname, present) ==
  LET missing == SelectSeq(REQUIRED_FIELDS, LAMBDA f : f \notin present)
  IN [i \in 1 .. Len(missing) |->
        [file |-> fname, kind |-> "missing required field", field |-> missing[i]]]

\* manifest.get(key)
Get(obj, key) == IF key \in DOMAIN obj THEN obj[key] ELSE JNull

\* line 165 as bot_commands.py:63 records an unreadable file
HashEntryNone(fname, file_bytes) == <<fname, JNull>>

\* line 165
HashEntry(fname, file_bytes) == <<fname, sha256_bytes(file_bytes)>>

\* lines 183-190
CheckIcon(st, fname, pkg, icon) ==
  IF Truthy(pkg)
    THEN LET r == validate_icon_for_package(pkg.s, icon)
             st1 == [st EXCEPT !.icons =
                       Append(@, [pkg |-> pkg.s, icon |-> icon, result |-> r])]
         IN IF r.ok THEN st1
            ELSE Fail(st1, [file |-> <<"manifests", pkg.s, "json">>,
                            kind |-> "icon problem", reason |-> r.reason])
    ELSE Fail(st, [file |-> fname,
                   kind |-> "package field missing, cannot validate icon"])

\* lines 192-208
CheckUrl(st, fname, url, declared_sha, rr) ==
  IF Truthy(url)
    THEN IF rr.kind = "exception"
           THEN Fail(st, [file |-> fname, kind |-> "failed to download file"])
         ELSE IF rr.status_code # 200
           THEN Fail(st, [file |-> fname, kind |-> "URL returned HTTP",
                          status_code |-> rr.status_code])
         ELSE LET actual == sha256_bytes(rr.content)
                  st1 == [st EXCEPT !.actual = Append(@, <<fname, actual>>)]
              IN IF Truthy(declared_sha) /\ ~PyEq(actual, declared_sha)
                   THEN Fail(st1, [file |-> fname, kind |-> "sha256 mismatch",
                                   expected |-> declared_sha, got |-> actual])
                   ELSE st1
    ELSE Fail(st, [file |-> fname, kind |-> "url is empty"])

\* lines 147-208, one iteration
ValidateFile(st, fname, bytes, env) ==
  IF ~env.read_ok
    THEN Fail(st, [file |-> fname, kind |-> "failed to read file from PR branch"])
  ELSE
    LET st1 == [st EXCEPT !.current_hashes = Append(@, HashEntry(fname, bytes))]
        manifest == json_loads(bytes)
    IN CASE manifest.json = "invalid" ->
              Fail(st1, [file |-> fname, kind |-> "invalid JSON"])
         [] manifest.json = "number" ->
              \* `f not in manifest` raises TypeError (line 175)
              [st1 EXCEPT !.crashed = TRUE]
         [] manifest.json = "array" ->
              \* every field is reported missing, then manifest.get raises
              \* AttributeError (line 179)
              [FailAll(st1, MissingFieldErrors(fname, {})) EXCEPT !.crashed = TRUE]
         [] manifest.json = "object" ->
              LET obj == manifest.obj
                  st2 == FailAll(st1, MissingFieldErrors(fname, DOMAIN obj))
                  st3 == CheckIcon(st2, fname, Get(obj, "package"), env.icon)
              IN CheckUrl(st3, fname, Get(obj, "url"), Get(obj, "sha256"), env.url)

\* lines 146-208: the loop stops where an exception leaves main
RECURSIVE ValidateFiles(_, _, _, _)
ValidateFiles(st, manifests_files, files, envs) ==
  IF manifests_files = <<>> \/ st.crashed THEN st
  ELSE LET fname == Head(manifests_files)
       IN ValidateFiles(ValidateFile(st, fname, files[fname], envs[fname]),
                        Tail(manifests_files), files, envs)

\* lines 135-136 (and bot_commands.py:51-52)
ManifestsOf(files) ==
  SelectSeq(PathOrder, LAMBDA f : f \in DOMAIN files /\ IsManifestFile(f))

(***************************************************************************)
(* The hash ledger: a comment holding a dict between the two markers       *)
(***************************************************************************)
\* A dict is the sequence of its items; Lookup reads it as Python does.
Keys(d) == {d[i][1] : i \in DOMAIN d}
Lookup(d, k) == d[CHOOSE i \in DOMAIN d : d[i][1] = k /\ \A j \in DOMAIN d : d[j][1] = k => j <= i][2]
DictEq(d, e) == Keys(d) = Keys(e) /\ \A k \in Keys(d) : PyEq(Lookup(d, k), Lookup(e, k))

\* A text is the sequence of its pieces: literal pieces and the JSON values
\* of dict items.  A path is written as its three parts.
MARKER_START == "<!-- MANIFEST_HASHES"
MARKER_END == "END MANIFEST_HASHES -->"

Text(s) == [t |-> "text", s |-> s]
Value(v) == [t |-> "value", v |-> v]

\* body.index(s, from): the first position at or after `from`, 0 if none
Index(body, s, from) ==
  IF \E i \in from .. Len(body) : body[i] = Text(s)
    THEN CHOOSE i \in from .. Len(body) :
           body[i] = Text(s) /\ \A j \in from .. (i - 1) : body[j] # Text(s)
    ELSE 0

\* `s in body`
In(s, body) == Index(body, s, 1) # 0

\* one member of the object: "path": value
Member(item) ==
  << Text("\""), Text(item[1][1]), Text(item[1][2]), Text(item[1][3]),
     Text("\":"), Value(item[2]) >>

RECURSIVE Members(_)
Members(data_dict) ==
  IF data_dict = <<>> THEN <<>>
  ELSE Member(Head(data_dict)) \o Members(Tail(data_dict))

\* json.dumps(data_dict, ensure_ascii=False, indent=2)
json_dumps(data_dict) == <<Text("{")>> \o Members(data_dict) \o <<Text("}")>>

\* the members of an object text, or a failure
RECURSIVE ParseMembers(_)
ParseMembers(text) ==
  IF text = <<>> THEN [ok |-> TRUE, data |-> <<>>]
  ELSE IF /\ Len(text) >= 6
          /\ text[1] = Text("\"")
          /\ \A i \in 2 .. 4 : text[i].t = "text"
          /\ text[5] = Text("\":")
          /\ text[6].t = "value"
    THEN LET rest == ParseMembers(SubSeq(text, 7, Len(text)))
         IN [ok |-> rest.ok,
             data |-> <<<<<<text[2].s, text[3].s, text[4].s>>, text[6].v>>>>
                        \o rest.data]
    ELSE [ok |-> FALSE, data |-> <<>>]

\* json.loads of the text between the markers
json_loads_text(json_text) ==
  IF /\ Len(json_text) >= 2
     /\ json_text[1] = Text("{")
     /\ json_text[Len(json_text)] = Text("}")
    THEN ParseMembers(SubSeq(json_text, 2, Len(json_text) - 1))
    ELSE [ok |-> FALSE, data |-> <<>>]

\* line 64: f"{MARKER_START}\n{payload}\n{MARKER_END}"
MarkerBody(payload) == <<Text(MARKER_START)>> \o payload \o <<Text(MARKER_END)>>

NoMarker == [found |-> FALSE]

\* bot_commands.py:38-45: the dict of one comment body, or a failure
ReadBody(body) ==
  IF In(MARKER_START, body) /\ In(MARKER_END, body)
    THEN LET start == Index(body, MARKER_START, 1) + 1
             end == Index(body, MARKER_END, start)
         IN IF end = 0 THEN [ok |-> FALSE, data |-> <<>>]
            ELSE json_loads_text(SubSeq(body, start, end - 1))
    ELSE [ok |-> FALSE, data |-> <<>>]

\* bot_commands.py:35-47: newest first, the first block that parses
RECURSIVE find_marker_comment(_)
find_marker_comment(cs) ==
  IF cs = <<>> THEN NoMarker
  ELSE LET c == cs[Len(cs)]
           r == ReadBody(c.body)
       IN IF r.ok
            THEN [found |-> TRUE, comment |-> c, data |-> r.data]
            ELSE find_marker_comment(SubSeq(cs, 1, Len(cs) - 1))

\* bot_commands.py:49-64, every read succeeding
compute_current_hashes(files) ==
  LET manifests == ManifestsOf(files)
  IN [i \in DOMAIN manifests |-> <<manifests[i], sha256_bytes(files[manifests[i]])>>]

(***************************************************************************)
(* Triggering events (GITHUB_EVENT_PATH payload)                           *)
(***************************************************************************)
\* A comment body is the sequence of its words; `pat in body` is the
\* substring test of Python.
Contains(body, pat) ==
  \E i \in 1 .. (Len(body) - Len(pat) + 1) :
    SubSeq(body, i, i + Len(pat) - 1) = pat

Users == {MODERATOR, MODERATOR2, "mallory"}

Bodies ==
  { <<"thanks">>, <<"@bot">>, <<"@bot", "check">>, <<"@bot", "allow">>,
    <<"@bot", "deny">>, <<"@bot", "check", "@bot", "deny">> }

\* a pull_request event has no "comment" key: body and user come from the
\* environment (lines 100-102)
PullRequestEvent ==
  [pull_request |-> TRUE, comment |-> FALSE, body |-> <<>>, user |-> "mallory"]

CommentEvent(body, user) ==
  [pull_request |-> FALSE, comment |-> TRUE, body |-> body, user |-> user]

CommentEvents == {CommentEvent(b, u) : b \in Bodies, u \in Users}

(***************************************************************************)
(* The state of one invocation                                             *)
(***************************************************************************)
Procs == {1}

IdleInv ==
  [pc |-> "idle", event |-> PullRequestEvent, labels_at_start |-> {},
   changed_files |-> <<>>, manifests_files |-> <<>>, st |-> Locals0, path |-> "none",
   labels |-> {}, existing |-> {}, labels_to_remove |-> <<>>,
   to_delete |-> <<>>, out |-> <<>>, returncode |-> 0,
   found |-> NoMarker, publishes |-> 0, calls |-> <<>>, alone |-> TRUE]

Goto(p, pc) == inv' = [inv EXCEPT ![p].pc = pc]

Post(log, kind) == Append(log, [kind |-> kind])

\* the invocation p moves to pc; when `made`, it has made the label call
\* op (remove_from_labels or add_to_labels) on lab, kept in calls
LabelCall(p, pc, op, lab, made) ==
  inv' = [inv EXCEPT ![p].pc = pc,
                     ![p].calls = IF made THEN Append(@, [op |-> op, label |-> lab])
                                          ELSE @]

\* the id the platform gives the next comment
UsedIds ==
  {comments[i].id : i \in DOMAIN comments}
    \cup UNION {Range(inv[p].to_delete) : p \in DOMAIN inv}
NewId == CHOOSE n \in 1 .. (Cardinality(UsedIds) + 1) : n \notin UsedIds

\* issue.get_comments() filtered by `MARKER_START in body`
MarkerIds(cs) ==
  LET marked == SelectSeq(cs, LAMBDA c : In(MARKER_START, c.body))
  IN [i \in DOMAIN marked |-> marked[i].id]

\* c.delete()
Delete(cs, id) == SelectSeq(cs, LAMBDA c : c.id # id)

(***************************************************************************)
(* The contributor changes the files of the change request                 *)
(***************************************************************************)
FilesWith(a, b) ==
  [f \in {Readme} \cup (IF a # 0 THEN {ManifestA} ELSE {})
                  \cup (IF b # 0 THEN {ManifestB} ELSE {}) |->
     IF f = ManifestA THEN a ELSE IF f = ManifestB THEN b ELSE 0]

BytesOf(files, f) == IF f \in DOMAIN files THEN files[f] ELSE 0

\* An invocation reads the changed files once, in ListFiles, so a push at any
\* later point of it leaves the same state as a push right after that listing:
\* pushes are taken between invocations and right after the listing.
Push(a, b) ==
  /\ \A p \in DOMAIN inv : inv[p].pc \in {"idle", "v_loop", "v_no_manifests"}
  /\ pr_files # FilesWith(a, b)
  /\ pr_files' = FilesWith(a, b)
  /\ UNCHANGED <<labels, comments, inv>>

(***************************************************************************)
(* bot_commands.py: main                                                   *)
(***************************************************************************)
\* the platform starts the workflow for an event; alone records that no
\* other invocation was under way at that moment
Trigger(p, e) ==
  /\ inv[p].pc = "idle"
  /\ inv' = [inv EXCEPT ![p] =
       [IdleInv EXCEPT !.pc = "b_main", !.event = e,
                       !.labels_at_start = labels,
                       !.alone = \A q \in DOMAIN inv \ {p} :
                                   inv[q].pc \in {"idle", "exit"}]]
  /\ UNCHANGED <<pr_files, labels, comments>>

IsModerator(user) == user = MODERATOR \/ user = MODERATOR2

\* lines 94-127: which branch main takes.  The approve block of lines
\* 128-136 is at function level and ends in `return`: every comment that
\* addresses the bot and is neither a check nor a refused allow reaches it,
\* and the deny handler (138-151) and the unknown-command notice (154) are
\* never reached.
Branch(e) ==
  IF ~Contains(e.body, <<"@bot">>)
    THEN IF e.pull_request THEN "v_files" ELSE "exit"
  ELSE IF Contains(e.body, <<"@bot", "check">>) THEN "b_check_ack"
  ELSE IF Contains(e.body, <<"@bot", "allow">>) /\ ~IsModerator(e.user)
    THEN "b_refuse"
  ELSE "b_remove_labels"

Dispatch(p) ==
  /\ inv[p].pc = "b_main"
  /\ Goto(p, Branch(inv[p].event))
  /\ UNCHANGED <<pr_files, labels, comments>>

\* line 114
CheckAck(p) ==
  /\ inv[p].pc = "b_check_ack"
  /\ inv' = [inv EXCEPT ![p].pc = "v_files",
                        ![p].out = Post(@, "Running manifest validation")]
  /\ UNCHANGED <<pr_files, labels, comments>>

\* lines 116-120
CheckDone(p) ==
  /\ inv[p].pc = "b_check_done"
  /\ inv' = [inv EXCEPT ![p].pc = "exit",
                        ![p].out = Post(@, IF inv[p].returncode = 0
                                             THEN "Validation completed"
                                             ELSE "Validation finished with internal note")]
  /\ UNCHANGED <<pr_files, labels, comments>>

\* lines 124-126
Refuse(p) ==
  /\ inv[p].pc = "b_refuse"
  /\ inv' = [inv EXCEPT ![p].pc = "exit",
                        ![p].out = Post(@, "Only moderators can approve or deny PRs")]
  /\ UNCHANGED <<pr_files, labels, comments>>

\* lines 129 and 67: remove_labels reads the labels
RemoveLabelsRead(p) ==
  /\ inv[p].pc = "b_remove_labels"
  /\ inv' = [inv EXCEPT ![p].pc = "b_remove_label",
                        ![p].existing = labels,
                        ![p].labels_to_remove =
                           <<"Invalid manifest", "Under review", "Rejected">>]
  /\ UNCHANGED <<pr_files, labels, comments>>

\* lines 68-73: one pass of the loop of remove_labels
RemoveLabel(p) ==
  /\ inv[p].pc = "b_remove_label"
  /\ inv[p].labels_to_remove # <<>>
  /\ LET lab == Head(inv[p].labels_to_remove)
     IN labels' = IF lab \in inv[p].existing THEN labels \ {lab} ELSE labels
  /\ inv' = [inv EXCEPT ![p].labels_to_remove = Tail(@),
                        ![p].pc = IF Len(inv[p].labels_to_remove) = 1
                                    THEN "b_add_approved" ELSE "b_remove_label",
                        ![p].calls =
                           IF Head(inv[p].labels_to_remove) \in inv[p].existing
                             THEN Append(@, [op |-> "remove",
                                             label |-> Head(inv[p].labels_to_remove)])
                             ELSE @]
  /\ UNCHANGED <<pr_files, comments>>

\* lines 130-133
AddApproved(p) ==
  /\ inv[p].pc = "b_add_approved"
  /\ labels' = labels \cup {"Approved"}
  /\ LabelCall(p, "b_approved_comment", "add", "Approved", TRUE)
  /\ UNCHANGED <<pr_files, comments>>

\* lines 135-136
ApprovedComment(p) ==
  /\ inv[p].pc = "b_approved_comment"
  /\ inv' = [inv EXCEPT ![p].pc = "exit",
                        ![p].out = Post(@, "PR has been approved by moderator")]
  /\ UNCHANGED <<pr_files, labels, comments>>

\* the process ends; its memory is gone
Exit(p) ==
  /\ inv[p].pc = "exit"
  /\ inv' = [inv EXCEPT ![p] = IdleInv]
  /\ UNCHANGED <<pr_files, labels, comments>>

(***************************************************************************)
(* validate_manifest.py: main, run as a subprocess of bot_commands.py      *)
(***************************************************************************)
\* lines 135-138; each listed file carries the raw_url of its content at
\* the listed revision
ListFiles(p) ==
  /\ inv[p].pc = "v_files"
  /\ LET manifests_files == ManifestsOf(pr_files)
     IN inv' = [inv EXCEPT ![p].changed_files = pr_files,
                           ![p].manifests_files = manifests_files,
                           ![p].pc = IF manifests_files = <<>>
                                       THEN "v_no_manifests" ELSE "v_loop"]
  /\ UNCHANGED <<pr_files, labels, comments>>

\* lines 139-141
NoManifests(p) ==
  /\ inv[p].pc = "v_no_manifests"
  /\ inv' = [inv EXCEPT ![p].pc = "v_return",
                        ![p].out = Post(@, "No manifests found in this PR"),
                        ![p].st.validation_success = FALSE,
                        ![p].path = "no manifests"]
  /\ UNCHANGED <<pr_files, labels, comments>>

\* lines 143-208; an exception leaving main ends the subprocess with a
\* nonzero return code
Loop(p, envs) ==
  /\ inv[p].pc = "v_loop"
  /\ LET st == ValidateFiles(Locals0, inv[p].manifests_files, inv[p].changed_files, envs)
     IN inv' = [inv EXCEPT ![p].st = st,
                           ![p].pc = IF st.crashed THEN "v_return" ELSE "v_labels",
                           ![p].path = IF st.crashed THEN "crashed" ELSE "none",
                           ![p].returncode = IF st.crashed THEN 1 ELSE 0]
  /\ UNCHANGED <<pr_files, labels, comments>>

\* lines 210-212
GetLabels(p) ==
  /\ inv[p].pc = "v_labels"
  /\ inv' = [inv EXCEPT ![p].labels = labels,
                        ![p].pc = IF inv[p].st.validation_success
                                    THEN "v_ok_remove" ELSE "v_fail_remove",
                        ![p].path = IF inv[p].st.validation_success
                                      THEN "success" ELSE "failure"]
  /\ UNCHANGED <<pr_files, labels, comments>>

\* lines 213-217 with the removal left out
FailRemoveSkipped(p) ==
  /\ inv[p].pc = "v_fail_remove"
  /\ Goto(p, "v_fail_add")
  /\ UNCHANGED <<pr_files, labels, comments>>

\* lines 213-222 with the two blocks in the other order: the addition of
\* lines 218-222, then the removal of lines 213-217
FailAddThenRemove(p) ==
  /\ inv[p].pc = "v_fail_remove"
  /\ labels' = ((IF "Invalid manifest" \notin inv[p].labels
                   THEN labels \cup {"Invalid manifest"} ELSE labels)
                \ (IF "Under review" \in inv[p].labels
                     THEN {"Under review"} ELSE {}))
  /\ inv' = [inv EXCEPT
       ![p].pc = "v_fail_comment",
       ![p].calls =
          @ \o (IF "Invalid manifest" \notin inv[p].labels
                  THEN <<[op |-> "add", label |-> "Invalid manifest"]>> ELSE <<>>)
            \o (IF "Under review" \in inv[p].labels
                  THEN <<[op |-> "remove", label |-> "Under review"]>> ELSE <<>>)]
  /\ UNCHANGED <<pr_files, comments>>

\* lines 213-217
FailRemove(p) ==
  /\ inv[p].pc = "v_fail_remove"
  /\ labels' = IF "Under review" \in inv[p].labels
                 THEN labels \ {"Under review"} ELSE labels
  /\ LabelCall(p, "v_fail_add", "remove", "Under review",
               "Under review" \in inv[p].labels)
  /\ UNCHANGED <<pr_files, comments>>

\* lines 218-222
FailAdd(p) ==
  /\ inv[p].pc = "v_fail_add"
  /\ labels' = IF "Invalid manifest" \notin inv[p].labels
                 THEN labels \cup {"Invalid manifest"} ELSE labels
  /\ LabelCall(p, "v_fail_comment", "add", "Invalid manifest",
               "Invalid manifest" \notin inv[p].labels)
  /\ UNCHANGED <<pr_files, comments>>

\* lines 224-228
FailComment(p) ==
  /\ inv[p].pc = "v_fail_comment"
  /\ inv' = [inv EXCEPT ![p].pc = "v_fail_list",
                        ![p].out = Append(@, [kind |-> "Manifest validation failed",
                                              errors |-> inv[p].st.errors])]
  /\ UNCHANGED <<pr_files, labels, comments>>

\* line 231
FailList(p) ==
  /\ inv[p].pc = "v_fail_list"
  /\ inv' = [inv EXCEPT ![p].pc = "v_fail_delete",
                        ![p].to_delete = MarkerIds(comments)]
  /\ UNCHANGED <<pr_files, labels, comments>>

\* lines 232-238
FailDelete(p) ==
  /\ inv[p].pc = "v_fail_delete"
  /\ IF inv[p].to_delete = <<>>
       THEN /\ Goto(p, "v_return")
            /\ UNCHANGED comments
       ELSE /\ comments' = Delete(comments, Head(inv[p].to_delete))
            /\ inv' = [inv EXCEPT ![p].to_delete = Tail(@)]
  /\ UNCHANGED <<pr_files, labels>>

\* lines 241-245 with the removal left out
OkRemoveSkipped(p) ==
  /\ inv[p].pc = "v_ok_remove"
  /\ Goto(p, "v_ok_add")
  /\ UNCHANGED <<pr_files, labels, comments>>

\* lines 241-245
OkRemove(p) ==
  /\ inv[p].pc = "v_ok_remove"
  /\ labels' = IF "Invalid manifest" \in inv[p].labels
                 THEN labels \ {"Invalid manifest"} ELSE labels
  /\ LabelCall(p, "v_ok_add", "remove", "Invalid manifest",
               "Invalid manifest" \in inv[p].labels)
  /\ UNCHANGED <<pr_files, comments>>

\* lines 246-250
OkAdd(p) ==
  /\ inv[p].pc = "v_ok_add"
  /\ labels' = IF "Under review" \notin inv[p].labels
                 THEN labels \cup {"Under review"} ELSE labels
  /\ LabelCall(p, "p_list", "add", "Under review",
               "Under review" \notin inv[p].labels)
  /\ UNCHANGED <<pr_files, comments>>

\* post_marker_comment, line 56
PublishList(p) ==
  /\ inv[p].pc = "p_list"
  /\ inv' = [inv EXCEPT ![p].pc = "p_delete",
                        ![p].to_delete = MarkerIds(comments)]
  /\ UNCHANGED <<pr_files, labels, comments>>

\* post_marker_comment without the deletion of lines 57-62
PublishDeleteSkipped(p) ==
  /\ inv[p].pc = "p_delete"
  /\ Goto(p, "p_create")
  /\ UNCHANGED <<pr_files, labels, comments>>

\* post_marker_comment, lines 57-62
PublishDelete(p) ==
  /\ inv[p].pc = "p_delete"
  /\ IF inv[p].to_delete = <<>>
       THEN /\ Goto(p, "p_create")
            /\ UNCHANGED comments
       ELSE /\ comments' = Delete(comments, Head(inv[p].to_delete))
            /\ inv' = [inv EXCEPT ![p].to_delete = Tail(@)]
  /\ UNCHANGED <<pr_files, labels>>

\* post_marker_comment, lines 63-65
PublishCreate(p) ==
  /\ inv[p].pc = "p_create"
  /\ comments' = Append(comments,
                        [id |-> NewId,
                         body |-> MarkerBody(json_dumps(inv[p].st.current_hashes))])
  /\ Goto(p, "v_ok_comment")
  /\ UNCHANGED <<pr_files, labels>>

\* post_marker_comment raises: issue.get_comments() of line 56 or
\* issue.create_comment of line 65 fails (a failing c.delete() is swallowed
\* at lines 61-62)
PublishRaises(p) ==
  /\ inv[p].pc \in {"p_list", "p_create"}
  /\ Goto(p, "p_failed")
  /\ UNCHANGED <<pr_files, labels, comments>>

\* lines 254-257: the handler of that exception
PublishFailed(p) ==
  /\ inv[p].pc = "p_failed"
  /\ inv' = [inv EXCEPT ![p].pc = "v_return",
                        ![p].path = "publish failed",
                        ![p].st.validation_success = FALSE,
                        ![p].out = Post(@, "Manifests validated, but failed to store hash marker")]
  /\ UNCHANGED <<pr_files, labels, comments>>

\* lines 259-265
OkComment(p) ==
  /\ inv[p].pc = "v_ok_comment"
  /\ inv' = [inv EXCEPT ![p].pc = "v_return",
                        ![p].out = Post(@, "Manifest validation successful")]
  /\ UNCHANGED <<pr_files, labels, comments>>

\* the subprocess ends: bot_commands.py lines 109-110 and 115-116
Return(p) ==
  /\ inv[p].pc = "v_return"
  /\ Goto(p, IF inv[p].event.pull_request THEN "exit" ELSE "b_check_done")
  /\ UNCHANGED <<pr_files, labels, comments>>

(***************************************************************************)
(* Specifications                                                          *)
(***************************************************************************)
Validate(p, envs) ==
  \/ ListFiles(p) \/ NoManifests(p)
  \/ \E e \in [Range(inv[p].manifests_files) -> envs] : Loop(p, e)
  \/ GetLabels(p)
  \/ FailRemove(p) \/ FailAdd(p) \/ FailComment(p) \/ FailList(p) \/ FailDelete(p)
  \/ OkRemove(p) \/ OkAdd(p)
  \/ PublishList(p) \/ PublishDelete(p) \/ PublishCreate(p)
  \/ OkComment(p) \/ Return(p)

Command(p) ==
  \/ Dispatch(p) \/ CheckAck(p) \/ CheckDone(p) \/ Refuse(p)
  \/ RemoveLabelsRead(p) \/ RemoveLabel(p) \/ AddApproved(p) \/ ApprovedComment(p)
  \/ Exit(p)

\* The workflow: invocations one at a time, for any event, between pushes.
Init ==
  /\ pr_files \in {FilesWith(a, b) : a \in WorkflowContents \cup {0}, b \in {0, 1}}
  /\ labels = {}
  /\ comments = <<>>
  /\ inv = [p \in Procs |-> IdleInv]

Next ==
  \/ \E a \in WorkflowContents \cup {0}, b \in {0, 1} : Push(a, b)
  \/ \E e \in CommentEvents \cup {PullRequestEvent} : Trigger(1, e)
  \/ Command(1)
  \/ Validate(1, WorkflowEnvs)

Spec == Init /\ [][Next]_vars

\* The validator: runs on pull_request events over every kind of manifest
\* and of outside input.
InitValidator ==
  /\ pr_files \in {FilesWith(a, b) : a \in AllContents \cup {0}, b \in {0, 1, 5}}
  /\ labels = {}
  /\ comments = <<>>
  /\ inv = [p \in Procs |-> IdleInv]

NextValidator ==
  \/ Trigger(1, PullRequestEvent)
  \/ Dispatch(1)
  \/ Validate(1, AllEnvs)
  \/ Exit(1)

SpecValidator == InitValidator /\ [][NextValidator]_vars

\* The review: invocations one at a time, for pull_request events, check
\* comments, and allow and deny comments of the moderators only.
ReviewEvents ==
  {PullRequestEvent}
    \cup {CommentEvent(<<"@bot", "check">>, u) : u \in Users}
    \cup {CommentEvent(b, u) : b \in {<<"@bot", "allow">>, <<"@bot", "deny">>},
                               u \in {MODERATOR, MODERATOR2}}

NextReview ==
  \/ \E a \in WorkflowContents \cup {0}, b \in {0, 1} : Push(a, b)
  \/ \E e \in ReviewEvents : Trigger(1, e)
  \/ Dispatch(1) \/ CheckAck(1) \/ CheckDone(1)
  \/ RemoveLabelsRead(1) \/ RemoveLabel(1) \/ AddApproved(1) \/ ApprovedComment(1)
  \/ Exit(1)
  \/ Validate(1, WorkflowEnvs)

SpecReview == Init /\ [][NextReview]_vars

(***************************************************************************)
(* The hash ledger alone: publishes and reads over any comment history     *)
(***************************************************************************)
\* a manifest file whose name holds the text of the end marker
ManifestEnd == <<"manifests", MARKER_END, "json">>

\* the values of a ledger entry: a digest, or None for a file that could not
\* be read (bot_commands.py:56-62)
DigestOrNull == {JHex(Sha256(1)), JHex(Sha256(2)), JNull}

LedgerEntries ==
  {<<>>}
    \cup {<< <<f, v>> >> : f \in {ManifestA, ManifestEnd}, v \in DigestOrNull}
    \cup {<< <<ManifestA, v>>, <<ManifestEnd, w>> >> :
            v \in DigestOrNull, w \in DigestOrNull}

\* bodies of comments found on the change request: a plain comment, a block
\* whose JSON is cut short, a block without end marker, an older ledger
OldBodies ==
  { <<Text("thanks")>>,
    <<Text(MARKER_START), Text("{"), Text(MARKER_END)>>,
    <<Text(MARKER_START), Text("{"), Text("}")>>,
    MarkerBody(json_dumps(<< <<ManifestA, JNull>> >>)) }

MaxHistory == 2

Histories ==
  UNION {[1 .. n -> OldBodies] : n \in 0 .. MaxHistory}

InitLedger ==
  /\ pr_files = FilesWith(0, 0)
  /\ labels = {}
  /\ \E h \in Histories : comments = [i \in DOMAIN h |-> [id |-> i, body |-> h[i]]]
  /\ inv = [p \in Procs |-> IdleInv]

\* validate_manifest.py:253: post_marker_comment(issue, current_hashes)
StartPublish(p, entries) ==
  /\ inv[p].pc = "idle"
  /\ inv' = [inv EXCEPT ![p].pc = "p_list",
                        ![p].st.current_hashes = entries]
  /\ UNCHANGED <<pr_files, labels, comments>>

\* bot_commands.py:35-47 called on the comments as they are
ReadLedger(p) ==
  /\ inv[p].pc = "v_ok_comment"
  /\ inv' = [inv EXCEPT ![p].pc = "l_read",
                        ![p].found = find_marker_comment(comments)]
  /\ UNCHANGED <<pr_files, labels, comments>>

MaxPublishes == 2

\* the next publish on the same change request
Again(p) ==
  /\ inv[p].pc = "l_read"
  /\ inv[p].publishes + 1 < MaxPublishes
  /\ inv' = [inv EXCEPT ![p] = [IdleInv EXCEPT !.publishes = inv[p].publishes + 1]]
  /\ UNCHANGED <<pr_files, labels, comments>>

NextLedger ==
  \E p \in Procs :
    \/ \E entries \in LedgerEntries : StartPublish(p, entries)
    \/ PublishList(p)
    \/ PublishDelete(p)
    \/ PublishCreate(p)
    \/ ReadLedger(p)
    \/ Again(p)

SpecLedger == InitLedger /\ [][NextLedger]_vars

\* The validator on a platform whose comment calls may fail during the
\* publish: runs on pull_request events over well-formed manifests.
InitFault ==
  /\ pr_files \in {FilesWith(a, b) : a \in WorkflowContents \cup {0}, b \in {0, 1}}
  /\ labels = {}
  /\ comments = <<>>
  /\ inv = [p \in Procs |-> IdleInv]

NextFault ==
  \/ \E a \in WorkflowContents \cup {0}, b \in {0, 1} : Push(a, b)
  \/ Trigger(1, PullRequestEvent)
  \/ Dispatch(1)
  \/ Validate(1, WorkflowEnvs)
  \/ PublishRaises(1)
  \/ PublishFailed(1)
  \/ Exit(1)

SpecFault == InitFault /\ [][NextFault]_vars

\* The icon check: validation runs over one well-formed manifest and every
\* kind of icon around the limits of lines 68-70.
IconInputs ==
  {Icon(in_pr, TRUE, TRUE, size, decodes, format, width, height) :
     in_pr \in BOOLEAN,
     size \in {ICON_MAX_SIZE - 1, ICON_MAX_SIZE, ICON_MAX_SIZE + 1},
     decodes \in BOOLEAN,
     format \in {"PNG", "JPEG"},
     width \in {ICON_WIDTH - 1, ICON_WIDTH, ICON_WIDTH + 1},
     height \in {ICON_HEIGHT, ICON_HEIGHT + 1}}
    \cup {IconMissing, Icon(TRUE, FALSE, TRUE, 0, FALSE, "", 0, 0)}

IconEnvs == {Env(TRUE, i, Response(200, 200)) : i \in IconInputs}

InitIcon ==
  /\ pr_files \in {FilesWith(a, 0) : a \in {0, 1}}
  /\ labels = {}
  /\ comments = <<>>
  /\ inv = [p \in Procs |-> IdleInv]

NextIcon ==
  \/ \E a \in {0, 1} : Push(a, 0)
  \/ Trigger(1, PullRequestEvent)
  \/ Dispatch(1)
  \/ Validate(1, IconEnvs)
  \/ Exit(1)

SpecIcon == InitIcon /\ [][NextIcon]_vars

\* Two workflow runs on the same change request: each runner handles one
\* pull_request event, and their platform calls interleave freely.
Runners == {1, 2}

InitRace ==
  /\ pr_files \in {FilesWith(a, 0) : a \in {0, 1, 3}}
  /\ labels = {}
  /\ comments = <<>>
  /\ inv = [p \in Runners |-> IdleInv]

NextRace ==
  \E p \in Runners :
    \/ Trigger(p, PullRequestEvent)
    \/ Dispatch(p)
    \/ Validate(p, WorkflowEnvs)

SpecRace == InitRace /\ [][NextRace]_vars

(***************************************************************************)
(* Properties                                                              *)
(***************************************************************************)
\* The command of a comment, by the table of the dispatcher: the first of
\* check, allow, deny that the body contains after addressing the bot.
CommandOf(body) ==
  IF ~Contains(body, <<"@bot">>) THEN "none"
  ELSE IF Contains(body, <<"@bot", "check">>) THEN "check"
  ELSE IF Contains(body, <<"@bot", "allow">>) THEN "allow"
  ELSE IF Contains(body, <<"@bot", "deny">>) THEN "deny"
  ELSE "unknown"

Idle == \A p \in Procs : inv[p].pc = "idle"

\* the invocation p has made its last step
Ended(p) == inv[p].pc = "exit"

Refusal == <<[kind |-> "Only moderators can approve or deny PRs"]>>

\* C1: an allow or deny command from an author who is not a moderator
\* changes no label: the labels at the end of the invocation are those at
\* its start, and only the refusal comment was posted.
C1_UnauthorizedChangesNoLabel ==
  \A p \in Procs :
    ( /\ Ended(p)
      /\ inv[p].event.comment
      /\ CommandOf(inv[p].event.body) \in {"allow", "deny"}
      /\ ~IsModerator(inv[p].event.user) )
    => /\ labels = inv[p].labels_at_start
       /\ inv[p].out = Refusal

\* C2: a moderator's allow ends with Approved as the only workflow label, a
\* moderator's deny with Rejected as the only workflow label, from every
\* starting label set.
C2_ModeratorCommandSetsTerminalLabel ==
  \A p \in Procs :
    ( /\ Ended(p)
      /\ inv[p].event.comment
      /\ IsModerator(inv[p].event.user) )
    => /\ CommandOf(inv[p].event.body) = "allow"
            => labels \cap WorkflowLabels = {"Approved"}
       /\ CommandOf(inv[p].event.body) = "deny"
            => labels \cap WorkflowLabels = {"Rejected"}

\* The live ledger exists and records, for exactly the changed manifest
\* files, the digest of their current bytes.
LedgerMatches ==
  LET m == find_marker_comment(comments)
  IN /\ m.found
     /\ DictEq(m.data, compute_current_hashes(pr_files))

\* the invocation p of an allow command is at the step that adds Approved
AllowAddsApproved(p) ==
  /\ inv[p].pc = "b_add_approved"
  /\ CommandOf(inv[p].event.body) = "allow"
  /\ "Approved" \notin labels
  /\ "Approved" \in labels'

\* C3: every step of an allow command that adds the Approved label is taken
\* while the live ledger exists and records the digest of the current bytes
\* of every changed manifest.
C3_ApprovedOnlyOnLedgerMatch ==
  [][(\E p \in Procs : AllowAddsApproved(p)) => LedgerMatches]_vars

\* C4: starting without workflow label, whenever no invocation is in
\* progress the change request carries at most one workflow label.
C4_LabelsMutuallyExclusive ==
  Idle => Cardinality(labels \cap WorkflowLabels) <= 1

\* the validation run of p has ended as a failure (a defect was reported,
\* or no manifest file was found)
FailedRun(p) ==
  /\ inv[p].pc = "v_return"
  /\ inv[p].path \in {"failure", "no manifests"}

\* C5: at the end of every failing validation run, Invalid manifest is the
\* only workflow label of the change request.
C5_FailureLeavesOnlyInvalidManifest ==
  \A p \in Procs :
    FailedRun(p) => labels \cap WorkflowLabels = {"Invalid manifest"}

\* C6: at the end of every failing validation run no comment carrying the
\* ledger start marker is left.
C6_FailureClearsLedger ==
  \A p \in Procs : FailedRun(p) => MarkerIds(comments) = <<>>

\* the validation run of p took the success path and has published
Published(p) ==
  /\ inv[p].path = "success"
  /\ inv[p].pc \in {"v_ok_comment", "v_return", "b_check_done", "exit"}

IsSha256Hex(v) ==
  /\ v.type = "hex"
  /\ Len(v.h) = 64
  /\ \A i \in DOMAIN v.h : v.h[i] \in HexDigits

\* the dict written in the newest comment of the form of line 64 of
\* validate_manifest.py: the object between its first and its last piece
LiveLedger ==
  LET ids == MarkerIds(comments)
  IN IF ids = <<>> THEN [found |-> FALSE, data |-> <<>>]
     ELSE LET c == CHOOSE c \in Range(comments) : c.id = ids[Len(ids)]
              r == json_loads_text(SubSeq(c.body, 2, Len(c.body) - 1))
          IN [found |-> r.ok, data |-> r.data]

\* C7: after a successful validation run the live ledger has one entry per
\* changed manifest file of the run and no other entry, and each value is
\* the 64-hex-digit SHA-256 digest of the bytes of that file as listed by
\* the run.
C7_LedgerHoldsDigestOfEveryManifest ==
  \A p \in Procs :
    Published(p) =>
      LET m == LiveLedger
          run_files == inv[p].manifests_files
      IN /\ m.found
         /\ Len(MarkerIds(comments)) = 1
         /\ Len(m.data) = Len(run_files)
         /\ Keys(m.data) = Range(run_files)
         /\ \A f \in Range(run_files) :
              /\ IsSha256Hex(Lookup(m.data, f))
              /\ Lookup(m.data, f).h = Sha256(inv[p].changed_files[f])

\* a successful run over two manifests, one of them pushed again since
C7_Witness ==
  \E p \in Procs :
    /\ Published(p)
    /\ Ended(p)
    /\ Len(inv[p].manifests_files) = 2
    /\ BytesOf(pr_files, ManifestA) # inv[p].changed_files[ManifestA]

\* C8: a check command runs the validation whoever its author is, and
\* every validation run on the success path, once past its label steps,
\* leaves Invalid manifest absent and Under review present.
C8_SuccessMovesToUnderReview ==
  \A p \in Procs :
    /\ ( /\ inv[p].path = "success"
         /\ inv[p].pc \in {"p_list", "p_delete", "p_create", "v_ok_comment",
                           "v_return", "b_check_done", "exit"} )
       => /\ "Invalid manifest" \notin labels
          /\ "Under review" \in labels
    /\ ( /\ Ended(p)
         /\ inv[p].event.comment
         /\ CommandOf(inv[p].event.body) = "check" )
       => /\ inv[p].path # "none"
          /\ inv[p].out[1] = [kind |-> "Running manifest validation"]

\* a check by a non-moderator on a change request labelled Invalid
\* manifest, ended on the success path
C8_Witness ==
  \E p \in Procs :
    /\ Ended(p)
    /\ inv[p].event.comment
    /\ CommandOf(inv[p].event.body) = "check"
    /\ ~IsModerator(inv[p].event.user)
    /\ inv[p].labels_at_start = {"Invalid manifest"}
    /\ inv[p].path = "success"

\* C9: a validation run over a non-empty set of manifest files takes the
\* success path exactly when it accumulated no error, and takes the
\* failure path whenever a file of the set is defective.
C9_SuccessIffNoErrors ==
  \A p \in Procs :
    (inv[p].pc = "v_return" /\ inv[p].manifests_files # <<>>)
    => /\ (inv[p].path = "success") <=> (inv[p].st.errors = <<>>)
       /\ (inv[p].path # "success") => (inv[p].path = "failure")

IsMismatchLine(e, f, declared, actual) ==
  /\ e.kind = "sha256 mismatch"
  /\ e.file = f
  /\ PyEq(e.expected, declared)
  /\ PyEq(e.got, actual)

\* the consolidated report of the run of p names the mismatch
ReportHasMismatch(p, f, declared, actual) ==
  \E i \in DOMAIN inv[p].out :
    /\ inv[p].out[i].kind = "Manifest validation failed"
    /\ \E j \in DOMAIN inv[p].out[i].errors :
         IsMismatchLine(inv[p].out[i].errors[j], f, declared, actual)

\* C10: when the loop has examined every file, every manifest with a
\* sha256 key whose url was downloaded with status 200 and whose declared
\* value is not the digest of the downloaded bytes makes the run fail with
\* a mismatch line naming both, whatever the declared value is.
C10_MismatchAlwaysReported ==
  \A p \in Procs :
    (inv[p].pc = "v_return" /\ inv[p].path \in {"success", "failure"})
    => \A f \in Keys(inv[p].st.actual) :
         LET manifest == json_loads(inv[p].changed_files[f])
             actual == Lookup(inv[p].st.actual, f)
         IN ( /\ "sha256" \in DOMAIN manifest.obj
              /\ ~PyEq(manifest.obj["sha256"], actual) )
            => /\ inv[p].path = "failure"
               /\ ReportHasMismatch(p, f, manifest.obj["sha256"], actual)

\* the consolidated report of the run of p holds a missing-field line for
\* file f and field k
ReportHasMissingField(p, f, k) ==
  \E i \in DOMAIN inv[p].out :
    /\ inv[p].out[i].kind = "Manifest validation failed"
    /\ \E j \in DOMAIN inv[p].out[i].errors :
         inv[p].out[i].errors[j] =
           [file |-> f, kind |-> "missing required field", field |-> k]

\* the run of p read file f and parsed it as a JSON object
ParsedObject(p, f) ==
  /\ f \in Keys(inv[p].st.current_hashes)
  /\ json_loads(inv[p].changed_files[f]).json = "object"

\* C11: at the end of a validation run, every manifest it parsed as a JSON
\* object that lacks required fields has made the run fail, and the report
\* holds one missing-field line, prefixed with the file, for each absent
\* field.
C11_EveryMissingFieldReported ==
  \A p \in Procs :
    inv[p].pc = "v_return" =>
      \A f \in Range(inv[p].manifests_files) :
        LET absent == IF ParsedObject(p, f)
                        THEN Range(REQUIRED_FIELDS)
                               \ DOMAIN json_loads(inv[p].changed_files[f]).obj
                        ELSE {}
        IN absent # {} =>
             /\ inv[p].path = "failure"
             /\ \A k \in absent : ReportHasMissingField(p, f, k)

\* C12: after every publish, the first and each later one on the same
\* change request, exactly one comment carries the start marker, and it is
\* the newest comment, the one this publish posted.
C12_PublishReplaces ==
  \A p \in Procs :
    inv[p].pc \in {"v_ok_comment", "l_read"} =>
      /\ Len(MarkerIds(comments)) = 1
      /\ comments[Len(comments)].id = MarkerIds(comments)[1]
      /\ comments[Len(comments)].body =
           MarkerBody(json_dumps(inv[p].st.current_hashes))

\* a second publish has ended, with entries other than those of the first
C12_Witness ==
  \E p \in Procs :
    /\ inv[p].pc = "l_read"
    /\ inv[p].publishes >= 1
    /\ Len(inv[p].st.current_hashes) = 2
    /\ Len(comments) = 3

\* C13: a read right after a publish returns the comment just published,
\* with a dict equal to the published entries.
C13_PublishThenReadRoundTrips ==
  \A p \in Procs :
    inv[p].pc = "l_read" =>
      /\ inv[p].found.found
      /\ inv[p].found.comment = comments[Len(comments)]
      /\ Len(inv[p].found.data) = Len(inv[p].st.current_hashes)
      /\ DictEq(inv[p].found.data, inv[p].st.current_hashes)

\* C14: a comment that addresses the bot with none of check, allow and deny,
\* whoever wrote it, ends with the labels as they were, no validation run
\* and the unknown-command notice as the only comment posted.
C14_UnknownCommandOnlyNotice ==
  \A p \in Procs :
    ( /\ Ended(p)
      /\ inv[p].event.comment
      /\ CommandOf(inv[p].event.body) = "unknown" )
    => /\ labels = inv[p].labels_at_start
       /\ inv[p].path = "none"
       /\ inv[p].out = <<[kind |-> "Unknown command"]>>

\* the run of p passed every check and its publish raised
PublishFailure(p) ==
  /\ inv[p].pc = "v_return"
  /\ inv[p].path = "publish failed"

\* C15: a run whose checks all pass and whose publish fails posts the
\* publish-failure notice and neither the success message nor the failure
\* report, and ends without the label Under review unless a ledger comment
\* exists.
C15_PublishFailureIsValidationFailure ==
  \A p \in Procs :
    PublishFailure(p) =>
      /\ inv[p].st.errors = <<>>
      /\ ~inv[p].st.validation_success
      /\ inv[p].out =
           <<[kind |-> "Manifests validated, but failed to store hash marker"]>>
      /\ "Under review" \in labels => MarkerIds(comments) # <<>>

\* the icon bytes of a recorded call were resolved, from the change request
\* or from the main branch
Resolved(icon) ==
  \/ icon.in_pr /\ icon.download_ok
  \/ ~icon.in_pr /\ icon.in_main

\* C16: for resolved icon bytes the icon check passes exactly when the size
\* is at most 4096 bytes, the bytes decode, the format is PNG and the image
\* is 32 by 32; when one of the four conditions alone is violated, the check
\* returns the reason of that condition.
C16_IconPassesIffConforming ==
  \A p \in Procs :
    \A i \in DOMAIN inv[p].st.icons :
      LET icon == inv[p].st.icons[i].icon
          result == inv[p].st.icons[i].result
          small == icon.size <= 4096
          png == icon.format = "PNG"
          square == icon.width = 32 /\ icon.height = 32
      IN Resolved(icon) =>
           /\ result.ok <=> (small /\ icon.decodes /\ png /\ square)
           /\ (~small /\ icon.decodes /\ png /\ square)
                => result.reason = "Icon size exceeds ICON_MAX_SIZE bytes"
           /\ (small /\ ~icon.decodes) => result.reason = "Icon image invalid"
           /\ (small /\ icon.decodes /\ ~png /\ square)
                => result.reason = "Icon is not PNG"
           /\ (small /\ icon.decodes /\ png /\ ~square)
                => result.reason = "Icon dimensions must be ICON_WIDTHxICON_HEIGHT"

\* a run has accepted an icon of exactly 4096 bytes taken from the change
\* request
C16_Witness ==
  \E p \in Procs :
    /\ inv[p].pc = "v_return"
    /\ \E i \in DOMAIN inv[p].st.icons :
         /\ inv[p].st.icons[i].icon.size = 4096
         /\ inv[p].st.icons[i].icon.in_pr
         /\ inv[p].st.icons[i].result.ok

\* the run of p examined the file f: it hashed it, or reported that it
\* could not read it
Examined(p, f) ==
  \/ f \in Keys(inv[p].st.current_hashes)
  \/ \E j \in DOMAIN inv[p].st.errors :
       inv[p].st.errors[j] =
         [file |-> f, kind |-> "failed to read file from PR branch"]

\* C17: a validation run over at least one manifest, whatever the defects of
\* the files, examines every changed manifest and ends on the success or on
\* the failure path, that is, after its label transition and its one report.
C17_RunExaminesEveryFile ==
  \A p \in Procs :
    (inv[p].pc = "v_return" /\ inv[p].manifests_files # <<>>) =>
      /\ inv[p].path \in {"success", "failure"}
      /\ \A f \in Range(inv[p].manifests_files) : Examined(p, f)
      /\ Len(inv[p].out) = 1

\* C18: among the label calls of one invocation, no removal comes after an
\* addition: every removal is made before the step that adds the new label.
C18_RemovalPrecedesAddition ==
  \A p \in Procs :
    \A i, j \in DOMAIN inv[p].calls :
      (i < j /\ inv[p].calls[i].op = "add") => inv[p].calls[j].op # "remove"

\* a failing run has taken Under review off and has then put Invalid
\* manifest on
C18_Witness ==
  \E p \in Procs :
    /\ inv[p].pc = "v_return"
    /\ inv[p].calls = << [op |-> "remove", label |-> "Under review"],
                         [op |-> "add", label |-> "Invalid manifest"] >>

\* no invocation is under way
Quiet == \A p \in DOMAIN inv : inv[p].pc \in {"idle", "exit"}

\* C19: whenever no invocation is under way at most one comment carries the
\* ledger start marker, also after validation runs whose steps interleaved.
C19_AtMostOneLedger ==
  Quiet => Len(MarkerIds(comments)) <= 1

\* both runners have ended, one run on the failure path and one on the
\* success path
OneFailedOneSucceeded ==
  /\ \A p \in DOMAIN inv : inv[p].pc = "exit"
  /\ \E p, q \in DOMAIN inv : inv[p].path = "failure" /\ inv[q].path = "success"

\* the runs followed one another: each started with no other under way
Sequential == \A p \in DOMAIN inv : inv[p].alone

\* C20: when a failing and a succeeding validation run follow one another,
\* in either order, the change request does not end with both Invalid
\* manifest and Under review; the state of C20_Witness shows that it does
\* for some interleaving of the two.
C20_SequentialRunsLeaveOneLabel ==
  (OneFailedOneSucceeded /\ Sequential) =>
    ~({"Invalid manifest", "Under review"} \subseteq labels)

\* a failing and a succeeding run have interleaved and the change request
\* carries both labels
C20_Witness ==
  /\ OneFailedOneSucceeded
  /\ ~Sequential
  /\ {"Invalid manifest", "Under review"} \subseteq labels

====
